---- MODULE Spec2Model ----
(***************************************************************************)
(* A model of src/solvers/highs.rs: the adapter that turns an              *)
(* UnsolvedProblem into a highs row problem (highs), encodes constraints   *)
(* as rows (HighsProblem::with), runs the solver and maps its status       *)
(* (HighsProblem::solve) and reads values back (HighsSolution::value).     *)
(*                                                                         *)
(* f64 values are modelled by small integers.  A Rust range bound is a     *)
(* record [kind, v] with kind one of "Included", "Excluded", "Unbounded".  *)
(* A Variable is its index() (zero-based); a highs::Col is the zero-based  *)
(* position of the column in the row problem.  Sequences are one-based, so *)
(* columns[variable.index()] is written columns[variable + 1].             *)
(***************************************************************************)
EXTENDS Integers, Sequences, FiniteSets, TLC

VARIABLES pc, to_solve, model, highs_problem, columns, constraints,
          solve_calls, solved, result, looked

vars == <<pc, to_solve, model, highs_problem, columns, constraints,
          solve_calls, solved, result, looked>>

----------------------------------------------------------------------------
(* Bounds of the model *)

\* largest number of variables of an UnsolvedProblem
MaxVars == 2
\* largest number of calls of with() on one HighsProblem
MaxRows == 2

----------------------------------------------------------------------------
(* Input domains *)

\* the variable definitions {min, max} a problem may hold
VarDefs == {[min |-> 0, max |-> 10], [min |-> 5, max |-> 5]}

\* coefficients the objective may give a variable
Factors == {1}

\* values the solver may report for a column
PrimalValues == {5, 10}

Directions == {"Maximisation", "Minimisation"}

\* partial maps from the variables 0 .. n-1 to factors (a HashMap<Variable, f64>)
LinearMaps(n) == UNION {[S -> Factors] : S \in SUBSET (0 .. n - 1)}

UnsolvedProblems ==
    UNION {[direction : Directions,
            variables : [1 .. n -> VarDefs],
            objective : LinearMaps(n)] : n \in 0 .. MaxVars}

\* the affine expressions constraints are made of, over the variables x (index 0)
\* and y (index 1):  x - 5,  x + y - 10  and  2y - 5
Expressions ==
    {[linear |-> (0 :> 1), constant |-> -5],
     [linear |-> (0 :> 1) @@ (1 :> 1), constant |-> -10],
     [linear |-> (1 :> 2), constant |-> -5]}

\* each expression as an equality (== 0) and as an inequality (<= 0)
ConstraintInputs ==
    {[linear |-> e.linear, constant |-> e.constant, is_equality |-> eq] :
        e \in Expressions, eq \in BOOLEAN}

\* the orders in which a HashMap's entries may be iterated
IterationOrders(f) ==
    {s \in [1 .. Cardinality(DOMAIN f) -> DOMAIN f] :
        \A i, j \in DOMAIN s : i # j => s[i] # s[j]}

----------------------------------------------------------------------------
(* Range bounds *)

Included(v) == [kind |-> "Included", v |-> v]
Excluded(v) == [kind |-> "Excluded", v |-> v]
Unbounded == [kind |-> "Unbounded", v |-> 0]

----------------------------------------------------------------------------
(* highs(to_solve) *)

\* a variant of SenseOf with the two arms of the match exchanged
SenseOfSwapped(direction) ==
    IF direction = "Maximisation" THEN "Minimise" ELSE "Maximise"

SenseOf(direction) ==
    IF direction = "Maximisation" THEN "Maximise" ELSE "Minimise"

\* to_solve.objective.linear.coefficients.get(&var).unwrap_or(&0.)
ObjectiveFactor(objective, var) ==
    IF var \in DOMAIN objective THEN objective[var] ELSE 0

\* the range expression min..max handed to add_column
ColumnRange(min, max) == [lo |-> Included(min), hi |-> Excluded(max)]

\* highs::RowProblem::add_column: appends the column, returns its handle
AddColumn(problem, col_factor, range) ==
    [problem |-> [problem EXCEPT !.cols =
                     Append(@, [factor |-> col_factor, lo |-> range.lo, hi |-> range.hi])],
     col |-> Len(problem.cols)]

\* iter_variables_with_def: the i-th pair is (the variable of index i, its definition)
IterVariablesWithDef(variables) ==
    [i \in 1 .. Len(variables) |-> [var |-> i - 1, def |-> variables[i]]]

\* a variant of ColumnStep that puts the new handle at the front of the table
ColumnStepPrepend(acc, item, objective) ==
    LET col_factor == ObjectiveFactor(objective, item.var)
        added == AddColumn(acc.highs_problem, col_factor,
                           ColumnRange(item.def.min, item.def.max))
    IN  [highs_problem |-> added.problem, columns |-> <<added.col>> \o acc.columns]

\* one iteration of the loop body of highs
ColumnStep(acc, item, objective) ==
    LET col_factor == ObjectiveFactor(objective, item.var)
        added == AddColumn(acc.highs_problem, col_factor,
                           ColumnRange(item.def.min, item.def.max))
    IN  [highs_problem |-> added.problem, columns |-> Append(acc.columns, added.col)]

RECURSIVE ColumnLoop(_, _, _, _)
ColumnLoop(acc, items, i, objective) ==
    IF i > Len(items) THEN acc
    ELSE ColumnLoop(ColumnStep(acc, items[i], objective), items, i + 1, objective)

RowProblemDefault == [cols |-> <<>>, rows |-> <<>>]

ModelNew == [sense |-> "Minimise", problem |-> <<>>]

\* the HighsProblem that highs(problem) returns
HighsOf(problem) ==
    LET built == ColumnLoop([highs_problem |-> RowProblemDefault, columns |-> <<>>],
                            IterVariablesWithDef(problem.variables), 1,
                            problem.objective)
    IN  [model |-> [ModelNew EXCEPT !.sense = SenseOf(problem.direction)],
         highs_problem |-> built.highs_problem,
         columns |-> built.columns]

Highs ==
    /\ pc = "start"
    /\ LET p == HighsOf(to_solve)
       IN  /\ model' = p.model
           /\ highs_problem' = p.highs_problem
           /\ columns' = p.columns
    /\ pc' = "built"
    /\ UNCHANGED <<to_solve, constraints, solve_calls, solved, result, looked>>

----------------------------------------------------------------------------
(* HighsProblem::into_inner and highs::Model::set_problem *)

SetProblem(m, problem) == [m EXCEPT !.problem = <<problem>>]

\* the highs::Model that self.into_inner() returns
IntoInnerOf(self) == SetProblem(self.model, self.highs_problem)

Self == [model |-> model, highs_problem |-> highs_problem, columns |-> columns]

IntoInner ==
    /\ pc = "built"
    /\ model' = IntoInnerOf(Self)
    /\ pc' = "inner"
    /\ UNCHANGED <<to_solve, highs_problem, columns, constraints,
                   solve_calls, solved, result, looked>>

----------------------------------------------------------------------------
(* HighsProblem::with(constraint) *)

\* a variant of UpperBound that forgets the negation
UpperBoundUnnegated(constraint) == constraint.constant

\* let upper_bound = -constraint.expression.constant()
UpperBound(constraint) == 0 - constraint.constant

\* the range handed to add_row: upper_bound..=upper_bound or ..=upper_bound
RowRange(constraint, upper_bound) ==
    IF constraint.is_equality
    THEN [lo |-> Included(upper_bound), hi |-> Included(upper_bound)]
    ELSE [lo |-> Unbounded, hi |-> Included(upper_bound)]

\* expression.linear_coefficients().into_iter(), visiting the entries in `order`
LinearCoefficients(constraint, order) ==
    [i \in DOMAIN order |-> <<order[i], constraint.linear[order[i]]>>]

\* a variant of RowFactors that resolves every variable to columns[0]
RowFactorsFirstColumn(cols, terms) ==
    [i \in DOMAIN terms |-> <<cols[1], terms[i][2]>>]

\* .map(|(variable, factor)| (columns[variable.index()], factor))
RowFactors(cols, terms) ==
    [i \in DOMAIN terms |-> <<cols[terms[i][1] + 1], terms[i][2]>>]

\* highs::RowProblem::add_row: appends the row
AddRow(problem, range, factors) ==
    [problem EXCEPT !.rows =
        Append(@, [lo |-> range.lo, hi |-> range.hi, factors |-> factors])]

\* columns[variable.index()] is in bounds for every term of the expression
Registered(cols, constraint) ==
    \A v \in DOMAIN constraint.linear : v < Len(cols)

\* a variant of WithOf that adds the row twice
WithOfTwice(self, constraint, order) ==
    LET upper_bound == UpperBound(constraint)
        factors == RowFactors(self.columns, LinearCoefficients(constraint, order))
        range == RowRange(constraint, upper_bound)
    IN  [self EXCEPT !.highs_problem = AddRow(AddRow(@, range, factors), range, factors)]

\* a variant of WithOf that starts from an empty row problem's rows
WithOfReplace(self, constraint, order) ==
    LET upper_bound == UpperBound(constraint)
        factors == RowFactors(self.columns, LinearCoefficients(constraint, order))
    IN  [self EXCEPT !.highs_problem =
            AddRow([@ EXCEPT !.rows = <<>>], RowRange(constraint, upper_bound), factors)]

\* the HighsProblem that self.with(constraint) returns
WithOf(self, constraint, order) ==
    LET upper_bound == UpperBound(constraint)
        factors == RowFactors(self.columns, LinearCoefficients(constraint, order))
    IN  [self EXCEPT !.highs_problem =
            AddRow(@, RowRange(constraint, upper_bound), factors)]

With(constraint, order) ==
    /\ pc = "built"
    /\ Len(constraints) < MaxRows
    /\ IF Registered(columns, constraint)
       THEN LET p == WithOf(Self, constraint, order)
            IN  /\ model' = p.model
                /\ highs_problem' = p.highs_problem
                /\ columns' = p.columns
                /\ constraints' = Append(constraints, constraint)
                /\ pc' = "built"
       ELSE \* the index expression panics while add_row consumes the iterator
            /\ pc' = "panic"
            /\ UNCHANGED <<model, highs_problem, columns, constraints>>
    /\ UNCHANGED <<to_solve, solve_calls, solved, result, looked>>

----------------------------------------------------------------------------
(* The external solver: highs::Model::solve, status and get_solution *)

FailureStatuses ==
    {"NotSet", "LoadError", "ModelError", "PresolveError", "SolveError",
     "PostsolveError", "ModelEmpty", "PrimalInfeasible", "PrimalUnbounded"}

HighsModelStatus == FailureStatuses \cup {"Optimal", "ReachedTimeLimit"}

RECURSIVE Dot(_, _, _)
\* sum over the entries i .. of `factors` of factor * primal[col]
Dot(factors, primal, i) ==
    IF i > Len(factors) THEN 0
    ELSE factors[i][2] * primal[factors[i][1] + 1] + Dot(factors, primal, i + 1)

\* x lies in the range lo .. hi; `closed` says the solver reads an excluded
\* end as an included one
InRange(x, lo, hi, closed) ==
    /\ CASE lo.kind = "Unbounded" -> TRUE
         [] lo.kind = "Included" -> lo.v <= x
         [] lo.kind = "Excluded" -> IF closed THEN lo.v <= x ELSE lo.v < x
    /\ CASE hi.kind = "Unbounded" -> TRUE
         [] hi.kind = "Included" -> x <= hi.v
         [] hi.kind = "Excluded" -> IF closed THEN x <= hi.v ELSE x < hi.v

Points(problem) == [1 .. Len(problem.cols) -> PrimalValues]

Feasible(problem, p, closed) ==
    /\ \A i \in DOMAIN problem.cols :
          InRange(p[i], problem.cols[i].lo, problem.cols[i].hi, closed)
    /\ \A j \in DOMAIN problem.rows :
          InRange(Dot(problem.rows[j].factors, p, 1),
                  problem.rows[j].lo, problem.rows[j].hi, closed)

RECURSIVE Objective(_, _, _)
Objective(problem, p, i) ==
    IF i > Len(problem.cols) THEN 0
    ELSE problem.cols[i].factor * p[i] + Objective(problem, p, i + 1)

Optimal(m, p, closed) ==
    LET problem == m.problem[1]
    IN  /\ Feasible(problem, p, closed)
        /\ \A q \in Points(problem) :
              Feasible(problem, q, closed) =>
                 IF m.sense = "Maximise"
                 THEN Objective(problem, q, 1) <= Objective(problem, p, 1)
                 ELSE Objective(problem, q, 1) >= Objective(problem, p, 1)

\* what solving m may report: a failure status (whose column values the
\* adapter never reads), an optimal point of m, or any point when the solver
\* stopped early
SolverOutcomes(m) ==
    [status : FailureStatuses, primal : {<<>>}]
    \cup {[status |-> "Optimal", primal |-> p] :
            p \in {q \in Points(m.problem[1]) :
                     \E closed \in BOOLEAN : Optimal(m, q, closed)}}
    \cup [status : {"ReachedTimeLimit"}, primal : Points(m.problem[1])]

----------------------------------------------------------------------------
(* HighsProblem::solve *)

Err(error, reason) ==
    [tag |-> "Err", error |-> error, reason |-> reason, solution |-> <<>>]

Ok(solution) ==
    [tag |-> "Ok", error |-> "", reason |-> "", solution |-> solution]

\* a variant of StatusOutcome whose PrimalUnbounded arm returns Infeasible
StatusOutcomeUnboundedAsInfeasible(status, primal) ==
    CASE status \in {"NotSet", "LoadError", "ModelError", "PresolveError",
                     "SolveError", "PostsolveError", "ModelEmpty"} -> Err("Other", status)
      [] status = "PrimalInfeasible" -> Err("Infeasible", "")
      [] status = "PrimalUnbounded" -> Err("Infeasible", "")
      [] OTHER -> Ok(primal)

\* match solved.status() { ... }
StatusOutcome(status, primal) ==
    CASE status = "NotSet" -> Err("Other", "NotSet")
      [] status = "LoadError" -> Err("Other", "LoadError")
      [] status = "ModelError" -> Err("Other", "ModelError")
      [] status = "PresolveError" -> Err("Other", "PresolveError")
      [] status = "SolveError" -> Err("Other", "SolveError")
      [] status = "PostsolveError" -> Err("Other", "PostsolveError")
      [] status = "ModelEmpty" -> Err("Other", "ModelEmpty")
      [] status = "PrimalInfeasible" -> Err("Infeasible", "")
      [] status = "PrimalUnbounded" -> Err("Unbounded", "")
      [] OTHER -> Ok(primal)

Solve ==
    /\ pc = "built"
    /\ LET m == SetProblem(model, highs_problem)
       IN  \E out \in SolverOutcomes(m) :
              /\ model' = m
              /\ solve_calls' = solve_calls + 1
              /\ solved' = <<out>>
              /\ result' = <<StatusOutcome(out.status, out.primal)>>
    /\ pc' = "solved"
    /\ UNCHANGED <<to_solve, highs_problem, columns, constraints, looked>>

----------------------------------------------------------------------------
(* HighsSolution::value(variable) *)

\* a variant of SolutionValue that always reads the first entry
SolutionValueFirst(solution, variable) == solution[1]

\* self.solution.columns()[variable.index()]
SolutionValue(solution, variable) == solution[variable + 1]

Value(variable) ==
    /\ pc = "solved"
    /\ result[1].tag = "Ok"
    /\ IF variable < Len(result[1].solution)
       THEN /\ looked' = <<[variable |-> variable,
                            value |-> SolutionValue(result[1].solution, variable)]>>
            /\ pc' = "solved"
       ELSE \* index out of bounds
            /\ pc' = "panic"
            /\ UNCHANGED looked
    /\ UNCHANGED <<to_solve, model, highs_problem, columns, constraints,
                   solve_calls, solved, result>>

----------------------------------------------------------------------------
Init ==
    /\ pc = "start"
    /\ to_solve \in UnsolvedProblems
    /\ model = ModelNew
    /\ highs_problem = RowProblemDefault
    /\ columns = <<>>
    /\ constraints = <<>>
    /\ solve_calls = 0
    /\ solved = <<>>
    /\ result = <<>>
    /\ looked = <<>>

Next ==
    \/ Highs
    \/ \E c \in ConstraintInputs : \E order \in IterationOrders(c.linear) : With(c, order)
    \/ IntoInner
    \/ Solve
    \/ \E v \in 0 .. MaxVars - 1 : Value(v)

Spec == Init /\ [][Next]_vars

----------------------------------------------------------------------------
(* Properties *)

\* C1: once highs(to_solve) has returned, the row problem has exactly one
\* column per variable of to_solve, in the order of the variables (the i-th
\* column carries the bounds and the objective coefficient of the variable
\* of index i), and the table `columns` has the same length with
\* columns[i] the handle of that i-th column.
C1_ColumnsTable ==
    pc # "start" =>
        LET n == Len(to_solve.variables)
            objective == to_solve.objective
        IN  /\ Len(highs_problem.cols) = n
            /\ Len(columns) = n
            /\ \A i \in 0 .. n - 1 :
                  /\ columns[i + 1] = i
                  /\ highs_problem.cols[i + 1].lo.v = to_solve.variables[i + 1].min
                  /\ highs_problem.cols[i + 1].hi.v = to_solve.variables[i + 1].max
                  /\ highs_problem.cols[i + 1].factor =
                        (IF i \in DOMAIN objective THEN objective[i] ELSE 0)

C1_Witness ==
    /\ pc = "built"
    /\ Len(columns) = 2
    /\ to_solve.variables[1] # to_solve.variables[2]
    /\ DOMAIN to_solve.objective = {1}

C3_RowRange ==
    \A j \in DOMAIN constraints :
        /\ j \in DOMAIN highs_problem.rows
        /\ LET c == constraints[j]
               row == highs_problem.rows[j]
               bound == 0 - c.constant
           IN  /\ c.is_equality =>
                     /\ row.lo = [kind |-> "Included", v |-> bound]
                     /\ row.hi = [kind |-> "Included", v |-> bound]
               /\ ~c.is_equality =>
                     /\ row.lo.kind = "Unbounded"
                     /\ row.hi = [kind |-> "Included", v |-> bound]
               /\ (c.is_equality /\ c.linear = (0 :> 1) /\ c.constant = -5) =>
                     (row.lo.v = 5 /\ row.hi.v = 5)
               /\ (~c.is_equality /\ c.linear = (0 :> 1) @@ (1 :> 1) /\ c.constant = -10) =>
                     row.hi.v = 10

C3_Witness ==
    /\ pc = "built"
    /\ Len(constraints) = 2
    /\ constraints[1] = [linear |-> (0 :> 1), constant |-> -5, is_equality |-> TRUE]
    /\ constraints[2] = [linear |-> (0 :> 1) @@ (1 :> 1), constant |-> -10,
                         is_equality |-> FALSE]

\* C4: the coefficients of the row appended for a constraint over registered
\* variables are exactly the pairs (columns[v.index()], c) for the terms (v, c)
\* of the expression: one entry per term, no other entry, no column twice.
C4_RowCoefficients ==
    \A j \in DOMAIN constraints :
        /\ j \in DOMAIN highs_problem.rows
        /\ LET c == constraints[j]
               factors == highs_problem.rows[j].factors
           IN  /\ {factors[i] : i \in DOMAIN factors} =
                     {<<columns[v + 1], c.linear[v]>> : v \in DOMAIN c.linear}
               /\ Len(factors) = Cardinality(DOMAIN c.linear)
               /\ \A a, b \in DOMAIN factors : a # b => factors[a][1] # factors[b][1]

C4_Witness ==
    /\ pc = "built"
    /\ \E j \in DOMAIN constraints :
          /\ DOMAIN constraints[j].linear = {0, 1}
          /\ highs_problem.rows[j].factors[1][1] = 1
    /\ \E j \in DOMAIN constraints : constraints[j].linear = (1 :> 2)

\* C5: solve maps the status the solver reported to one outcome:
\* PrimalInfeasible to Err(Infeasible), PrimalUnbounded to Err(Unbounded), each
\* of the seven set-up failures to Err(Other(its own name)), any other status
\* to Ok of the primal vector the solver returned.
C5_StatusMapping ==
    solved # <<>> =>
        LET status == solved[1].status
            r == result[1]
            others == {"NotSet", "LoadError", "ModelError", "PresolveError",
                       "SolveError", "PostsolveError", "ModelEmpty"}
        IN  /\ status = "PrimalInfeasible" =>
                  (r.tag = "Err" /\ r.error = "Infeasible")
            /\ status = "PrimalUnbounded" =>
                  (r.tag = "Err" /\ r.error = "Unbounded")
            /\ status \in others =>
                  (r.tag = "Err" /\ r.error = "Other" /\ r.reason = status)
            /\ status \notin others \cup {"PrimalInfeasible", "PrimalUnbounded"} =>
                  (r.tag = "Ok" /\ r.solution = solved[1].primal)

C5_Witness ==
    /\ solved # <<>>
    /\ solved[1].status = "ReachedTimeLimit"
    /\ result[1].tag = "Ok"
    /\ Len(result[1].solution) = 2
    /\ looked = <<>>

\* the row is the encoding of the constraint under the index table cols
RowEncodes(row, c, cols) ==
    /\ row.hi = [kind |-> "Included", v |-> 0 - c.constant]
    /\ row.lo = (IF c.is_equality THEN row.hi ELSE [kind |-> "Unbounded", v |-> 0])
    /\ {row.factors[i] : i \in DOMAIN row.factors} =
          {<<cols[v + 1], c.linear[v]>> : v \in DOMAIN c.linear}

\* C6: after highs, k calls of with and solve, the model handed to the solver
\* has the n columns and exactly the k rows of the k constraints, in order;
\* the solver is invoked once and the result is the outcome of that one
\* invocation's status.
C6_SolveOnce ==
    /\ solve_calls <= 1
    /\ solved # <<>> =>
          /\ solve_calls = 1
          /\ Len(model.problem) = 1
          /\ LET handed == model.problem[1]
             IN  /\ Len(handed.cols) = Len(to_solve.variables)
                 /\ handed.cols = highs_problem.cols
                 /\ Len(handed.rows) = Len(constraints)
                 /\ \A j \in DOMAIN constraints :
                       RowEncodes(handed.rows[j], constraints[j], columns)
          /\ (result[1].tag = "Err") <=>
                (solved[1].status \in
                    {"NotSet", "LoadError", "ModelError", "PresolveError", "SolveError",
                     "PostsolveError", "ModelEmpty", "PrimalInfeasible", "PrimalUnbounded"})
          /\ result[1].tag = "Ok" => result[1].solution = solved[1].primal

C6_Witness ==
    /\ solved # <<>>
    /\ Len(constraints) = 2
    /\ constraints[1] # constraints[2]
    /\ solved[1].status = "PrimalInfeasible"

\* C7: a call of value(v) on a solution, for a variable v of the model,
\* returns the entry of the solver's primal vector at position v.index() and
\* leaves the solution as it was.
C7_ValueLookup ==
    [][(pc = "solved" /\ pc' = "solved") =>
          /\ result' = result
          /\ solved' = solved
          /\ looked' # <<>>
          /\ looked'[1].value = solved[1].primal[looked'[1].variable + 1]]_vars

C7_Witness ==
    /\ pc = "solved"
    /\ looked # <<>>
    /\ looked[1].variable = 1
    /\ result[1].solution[1] # result[1].solution[2]

C9_WithFrame ==
    [][(pc = "built" /\ pc' = "built") =>
          /\ columns' = columns
          /\ highs_problem'.cols = highs_problem.cols
          /\ model' = model
          /\ Len(highs_problem'.rows) = Len(highs_problem.rows) + 1
          /\ SubSeq(highs_problem'.rows, 1, Len(highs_problem.rows)) = highs_problem.rows]_vars

C9_Witness ==
    /\ pc = "built"
    /\ Len(highs_problem.rows) = 2
    /\ highs_problem.rows[1] # highs_problem.rows[2]
    /\ Len(columns) = 2

\* C10: the sense of the model is Maximise exactly when the direction of
\* to_solve is Maximisation and Minimise exactly when it is Minimisation, from
\* highs on, and it is the sense of the model that solve or into_inner hands
\* over, with the row problem attached.
C10_Sense ==
    /\ pc # "start" =>
          /\ (model.sense = "Maximise") <=> (to_solve.direction = "Maximisation")
          /\ (model.sense = "Minimise") <=> (to_solve.direction = "Minimisation")
    /\ (pc = "inner" \/ solved # <<>>) => model.problem = <<highs_problem>>

C10_Witness ==
    /\ pc = "inner"
    /\ to_solve.direction = "Maximisation"
    /\ model.sense = "Maximise"
    /\ Len(constraints) = 2
====
